---- MODULE Spec2Model ----
(***************************************************************************)
(* The command loop of src/go/main.go: a REPL that parses `insert` and     *)
(* `select` lines and keeps rows in a paged, fixed-capacity, in-memory     *)
(* table with a fixed-width binary row encoding.                           *)
(*                                                                         *)
(* Representation.                                                         *)
(*  - A Go string or []byte is a sequence of bytes (0..255); sequences are *)
(*    1-based here, Go offsets are 0-based.                                *)
(*  - A uint32 that may exceed 2^31 (Row.ID) is a pair <<hi, lo>> of       *)
(*    16-bit halves, value hi * 65536 + lo, so that the whole 32-bit range *)
(*    is representable and arithmetic on it is done limb by limb.          *)
(*  - A nil page is the empty sequence; an allocated page has PAGE_SIZE    *)
(*    bytes.                                                               *)
(*  - A slice into a page is the pair (page number, byte offset) plus the  *)
(*    table it aliases; writes through it are StoreSlot.                   *)
(***************************************************************************)
EXTENDS Integers, Sequences, FiniteSets, TLC

(***************************************************************************)
(* Program constants (main.go:16-27).  TABLE_MAX_PAGES is 100 in the       *)
(* source; it is a bound of this model (the capacity check of              *)
(* executeInsert is the same comparison for any value), the other          *)
(* constants have the source's values.                                     *)
(***************************************************************************)
COLUMN_USERNAME_SIZE == 32

COLUMN_EMAIL_SIZE == 255

PAGE_SIZE == 4096

TABLE_MAX_PAGES == 2

ROW_SIZE == 4 + COLUMN_USERNAME_SIZE + COLUMN_EMAIL_SIZE

ROWS_PER_PAGE == PAGE_SIZE \div ROW_SIZE

TABLE_MAX_ROWS == ROWS_PER_PAGE * TABLE_MAX_PAGES

(***************************************************************************)
(* Bounds of the environment: how many rows the user inserts in the wide   *)
(* specifications before only non-insert lines are typed.                  *)
(***************************************************************************)
MaxRows == 3

MaxParseRows == 1

(***************************************************************************)
(* Byte strings.                                                           *)
(***************************************************************************)
Zeros(n) == [i \in 1..n |-> 0]

Rep(c, n) == [i \in 1..n |-> c]

\* copy(dst, src): min(len(dst), len(src)) bytes of src over the start of dst.
Copy(dst, src) ==
    [i \in 1..Len(dst) |-> IF i <= Len(src) THEN src[i] ELSE dst[i]]

\* strings.HasPrefix
HasPrefix(s, prefix) ==
    Len(s) >= Len(prefix) /\ SubSeq(s, 1, Len(prefix)) = prefix

\* strings.IndexByte: the 0-based index of the first c in s, or -1.
IndexByte(s, c) ==
    IF \A i \in 1..Len(s) : s[i] # c THEN -1
    ELSE (CHOOSE i \in 1..Len(s) :
            s[i] = c /\ \A k \in 1..(i - 1) : s[k] # c) - 1

\* unicode.IsSpace on an ASCII byte: '\t', '\n', '\v', '\f', '\r', ' '.
IsSpace(c) == c \in {9, 10, 11, 12, 13, 32}

\* The first index >= i of s that holds a space (want = TRUE) or a non-space
\* (want = FALSE); Len(s) + 1 when there is none.
scanTo(s, i, want) ==
    CHOOSE j \in i..(Len(s) + 1) :
        /\ j = Len(s) + 1 \/ IsSpace(s[j]) = want
        /\ \A k \in i..(j - 1) : IsSpace(s[k]) # want

\* strings.Fields: the maximal runs of non-space bytes, in order.
RECURSIVE fieldsFrom(_, _, _)
fieldsFrom(s, i, acc) ==
    LET start == scanTo(s, i, FALSE)
        stop  == scanTo(s, start, TRUE)
    IN  IF start > Len(s) THEN acc
        ELSE fieldsFrom(s, stop, Append(acc, SubSeq(s, start, stop - 1)))

Fields(s) == fieldsFrom(s, 1, <<>>)

(***************************************************************************)
(* 32-bit unsigned integers as <<hi, lo>>.                                 *)
(***************************************************************************)
\* strconv.ParseUint(s, 10, 32): digits only, no sign; the first byte that is
\* no digit is a syntax error, the first digit that takes the value past
\* 2^32 - 1 a range error (the value returned is then the maximum).
RECURSIVE parseDigits(_, _, _)
parseDigits(s, i, n) ==
    IF i > Len(s) THEN [err |-> "nil", val |-> n]
    ELSE IF s[i] < 48 \/ s[i] > 57 THEN [err |-> "ErrSyntax", val |-> <<0, 0>>]
    ELSE LET lo == n[2] * 10 + (s[i] - 48)
             hi == n[1] * 10 + (lo \div 65536)
         IN  IF hi >= 65536 THEN [err |-> "ErrRange", val |-> <<65535, 65535>>]
             ELSE parseDigits(s, i + 1, <<hi, lo % 65536>>)

\* The slip of parsing with a wider bitSize and converting with uint32():
\* the value wraps modulo 2^32 instead of being refused.
RECURSIVE parseDigitsWrap(_, _, _)
parseDigitsWrap(s, i, n) ==
    IF i > Len(s) THEN [err |-> "nil", val |-> n]
    ELSE IF s[i] < 48 \/ s[i] > 57 THEN [err |-> "ErrSyntax", val |-> <<0, 0>>]
    ELSE LET lo == n[2] * 10 + (s[i] - 48)
             hi == n[1] * 10 + (lo \div 65536)
         IN  parseDigitsWrap(s, i + 1, <<hi % 65536, lo % 65536>>)

ParseUintWrap(s) ==
    IF Len(s) = 0 THEN [err |-> "ErrSyntax", val |-> <<0, 0>>]
    ELSE parseDigitsWrap(s, 1, <<0, 0>>)

ParseUint(s) ==
    IF Len(s) = 0 THEN [err |-> "ErrSyntax", val |-> <<0, 0>>]
    ELSE parseDigits(s, 1, <<0, 0>>)

\* binary.LittleEndian.PutUint32: the four bytes, least significant first.
PutUint32(v) == <<v[2] % 256, v[2] \div 256, v[1] % 256, v[1] \div 256>>

\* binary.LittleEndian.Uint32
Uint32(b) == <<b[3] + 256 * b[4], b[1] + 256 * b[2]>>

\* fmt's %d of a uint32: its decimal digits, most significant first.
RECURSIVE FormatUint(_)
FormatUint(v) ==
    IF v[1] = 0 /\ v[2] < 10 THEN <<48 + v[2]>>
    ELSE LET t == (v[1] % 10) * 65536 + v[2]
         IN  Append(FormatUint(<<v[1] \div 10, t \div 10>>), 48 + (t % 10))

(***************************************************************************)
(* Row, Statement, Table (main.go:59-95).                                  *)
(***************************************************************************)
\* The zero value of Row.
ZeroRow ==
    [ID |-> <<0, 0>>,
     Username |-> Zeros(COLUMN_USERNAME_SIZE),
     Email |-> Zeros(COLUMN_EMAIL_SIZE)]

\* &Statement{}: StatementInsert is the zero value of StatementType.
NewStatement == [Type |-> "StatementInsert", RowToInsert |-> ZeroRow]

newTable ==
    [NumRows |-> 0, Pages |-> [p \in 0..(TABLE_MAX_PAGES - 1) |-> <<>>]]

(***************************************************************************)
(* The row codec (main.go:101-126).                                        *)
(***************************************************************************)
\* A field up to its first zero byte (the whole field when it has none).
TrimNull(field) ==
    LET nullIndex == IndexByte(field, 0)
    IN  IF nullIndex >= 0 THEN SubSeq(field, 1, nullIndex) ELSE field

\* What one Printf writes: the format and its formatted arguments.
Printed(fmt, args) == [fmt |-> fmt, args |-> args]

printRow(row) ==
    Printed("(%d, %s, %s)\n",
            <<FormatUint(row.ID), TrimNull(row.Username), TrimNull(row.Email)>>)

\* The slip of writing the id most significant byte first.
serializeRowBigEndian(source, destination) ==
    LET id == PutUint32(source.ID)
    IN  <<id[4], id[3], id[2], id[1]>>
        \o Copy(SubSeq(destination, 5, 4 + COLUMN_USERNAME_SIZE), source.Username)
        \o Copy(SubSeq(destination, 5 + COLUMN_USERNAME_SIZE,
                       4 + COLUMN_USERNAME_SIZE + COLUMN_EMAIL_SIZE), source.Email)
        \o SubSeq(destination, 5 + COLUMN_USERNAME_SIZE + COLUMN_EMAIL_SIZE,
                  Len(destination))

\* The slip of copying each field only up to its terminator, which leaves
\* the rest of the destination as it was.
serializeRowContentOnly(source, destination) ==
    Copy(SubSeq(destination, 1, 4), PutUint32(source.ID))
    \o Copy(SubSeq(destination, 5, 4 + COLUMN_USERNAME_SIZE),
            TrimNull(source.Username))
    \o Copy(SubSeq(destination, 5 + COLUMN_USERNAME_SIZE,
                   4 + COLUMN_USERNAME_SIZE + COLUMN_EMAIL_SIZE),
            TrimNull(source.Email))
    \o SubSeq(destination, 5 + COLUMN_USERNAME_SIZE + COLUMN_EMAIL_SIZE,
              Len(destination))

\* serializeRow: the bytes of the destination window after the three writes.
serializeRow(source, destination) ==
    Copy(SubSeq(destination, 1, 4), PutUint32(source.ID))
    \o Copy(SubSeq(destination, 5, 4 + COLUMN_USERNAME_SIZE), source.Username)
    \o Copy(SubSeq(destination, 5 + COLUMN_USERNAME_SIZE,
                   4 + COLUMN_USERNAME_SIZE + COLUMN_EMAIL_SIZE), source.Email)
    \o SubSeq(destination, 5 + COLUMN_USERNAME_SIZE + COLUMN_EMAIL_SIZE,
              Len(destination))

\* deserializeRow: the destination row after the three reads.
deserializeRow(source, destination) ==
    [ID |-> Uint32(SubSeq(source, 1, 4)),
     Username |-> Copy(destination.Username,
                       SubSeq(source, 5, 4 + COLUMN_USERNAME_SIZE)),
     Email |-> Copy(destination.Email,
                    SubSeq(source, 5 + COLUMN_USERNAME_SIZE,
                           4 + COLUMN_USERNAME_SIZE + COLUMN_EMAIL_SIZE))]

(***************************************************************************)
(* The paged store (main.go:128-137).                                      *)
(***************************************************************************)
\* The slip of packing rows one field short: row windows overlap.
rowSlotOverlap(table, rowNum) ==
    LET pageNum == rowNum \div ROWS_PER_PAGE
        rowOffset == rowNum % ROWS_PER_PAGE
        byteOffset == rowOffset * (ROW_SIZE - 4)
    IN  IF pageNum >= TABLE_MAX_PAGES
        THEN [table |-> table, rowNum |-> rowNum, pageNum |-> pageNum,
              byteOffset |-> byteOffset, panic |-> TRUE]
        ELSE LET pages == IF table.Pages[pageNum] = <<>>
                          THEN [table.Pages EXCEPT
                                  ![pageNum] = Zeros(PAGE_SIZE)]
                          ELSE table.Pages
             IN  [table |-> [table EXCEPT !.Pages = pages],
                  rowNum |-> rowNum, pageNum |-> pageNum,
                  byteOffset |-> byteOffset,
                  panic |-> byteOffset + ROW_SIZE > PAGE_SIZE]

\* The slip of allocating the page on every call, not only when it is nil.
rowSlotFresh(table, rowNum) ==
    LET pageNum == rowNum \div ROWS_PER_PAGE
        rowOffset == rowNum % ROWS_PER_PAGE
        byteOffset == rowOffset * ROW_SIZE
    IN  IF pageNum >= TABLE_MAX_PAGES
        THEN [table |-> table, rowNum |-> rowNum, pageNum |-> pageNum,
              byteOffset |-> byteOffset, panic |-> TRUE]
        ELSE [table |-> [table EXCEPT !.Pages[pageNum] = Zeros(PAGE_SIZE)],
              rowNum |-> rowNum, pageNum |-> pageNum,
              byteOffset |-> byteOffset,
              panic |-> byteOffset + ROW_SIZE > PAGE_SIZE]

\* The slip of counting one row more in a page than fits.
rowSlotCrowded(table, rowNum) ==
    LET pageNum == rowNum \div (ROWS_PER_PAGE + 1)
        rowOffset == rowNum % (ROWS_PER_PAGE + 1)
        byteOffset == rowOffset * ROW_SIZE
    IN  IF pageNum >= TABLE_MAX_PAGES
        THEN [table |-> table, rowNum |-> rowNum, pageNum |-> pageNum,
              byteOffset |-> byteOffset, panic |-> TRUE]
        ELSE LET pages == IF table.Pages[pageNum] = <<>>
                          THEN [table.Pages EXCEPT
                                  ![pageNum] = Zeros(PAGE_SIZE)]
                          ELSE table.Pages
             IN  [table |-> [table EXCEPT !.Pages = pages],
                  rowNum |-> rowNum, pageNum |-> pageNum,
                  byteOffset |-> byteOffset,
                  panic |-> byteOffset + ROW_SIZE > PAGE_SIZE]

\* rowSlot: the table after the lazy allocation, and the window returned
\* (bytes [byteOffset, byteOffset + ROW_SIZE) of page pageNum).  `panic` is
\* Go's bounds check: indexing the array Pages at or past TABLE_MAX_PAGES
\* panics before anything is allocated, and so does slicing a page past its
\* PAGE_SIZE bytes.
rowSlot(table, rowNum) ==
    LET pageNum == rowNum \div ROWS_PER_PAGE
        rowOffset == rowNum % ROWS_PER_PAGE
        byteOffset == rowOffset * ROW_SIZE
    IN  IF pageNum >= TABLE_MAX_PAGES
        THEN [table |-> table, rowNum |-> rowNum, pageNum |-> pageNum,
              byteOffset |-> byteOffset, panic |-> TRUE]
        ELSE LET pages == IF table.Pages[pageNum] = <<>>
                          THEN [table.Pages EXCEPT
                                  ![pageNum] = Zeros(PAGE_SIZE)]
                          ELSE table.Pages
             IN  [table |-> [table EXCEPT !.Pages = pages],
                  rowNum |-> rowNum, pageNum |-> pageNum,
                  byteOffset |-> byteOffset,
                  panic |-> byteOffset + ROW_SIZE > PAGE_SIZE]

\* The bytes seen through a window.
LoadSlot(slot) ==
    SubSeq(slot.table.Pages[slot.pageNum],
           slot.byteOffset + 1, slot.byteOffset + ROW_SIZE)

\* The table after the window's bytes are overwritten with `bytes`.
StoreSlot(slot, bytes) ==
    LET page == slot.table.Pages[slot.pageNum]
    IN  [slot.table EXCEPT !.Pages[slot.pageNum] =
            SubSeq(page, 1, slot.byteOffset)
            \o bytes
            \o SubSeq(page, slot.byteOffset + ROW_SIZE + 1, Len(page))]

\* What a call of rowSlot addressed: the row index passed and the window
\* computed from it.
SlotCall(slot) ==
    [rowNum |-> slot.rowNum, pageNum |-> slot.pageNum,
     byteOffset |-> slot.byteOffset]

(***************************************************************************)
(* Meta-commands (main.go:145-162).                                        *)
(***************************************************************************)
\* The literal ".exit".
kwExit == <<46, 101, 120, 105, 116>>

\* strings.HasPrefix(buffer, ".")
isMetaCommand(buffer) == HasPrefix(buffer, <<46>>)

\* The slip of taking every line that starts with .exit for the command.
parseAndExecuteMetaPrefix(buffer) ==
    IF HasPrefix(buffer, kwExit) THEN "exit" ELSE "MetaCommandUnrecognized"

\* parseAndExecuteMeta: "exit" stands for os.Exit(0), which does not return.
parseAndExecuteMeta(buffer) ==
    IF buffer = kwExit THEN "exit" ELSE "MetaCommandUnrecognized"

(***************************************************************************)
(* The statement parser (main.go:164-208).                                 *)
(***************************************************************************)
\* The literal "insert".
kwInsert == <<105, 110, 115, 101, 114, 116>>

\* The literal "select".
kwSelect == <<115, 101, 108, 101, 99, 116>>

\* The slip of cutting at the capacity, leaving no room for a terminator.
TruncateToCapacity(token, capacity) ==
    IF Len(token) >= capacity THEN SubSeq(token, 1, capacity) ELSE token

\* if len(token) >= capacity { token = token[:capacity-1] }
Truncate(token, capacity) ==
    IF Len(token) >= capacity THEN SubSeq(token, 1, capacity - 1) ELSE token

\* The slip of matching the keyword as a prefix, as for insert.
IsSelectPrefix(buffer) == HasPrefix(buffer, kwSelect)

\* inputBuffer.buffer == "select"
IsSelect(buffer) == buffer = kwSelect

\* prepareStatement: the result and the statement as left by the call.
prepareStatement(buffer, statement) ==
    IF HasPrefix(buffer, kwInsert)
    THEN LET typed == [statement EXCEPT !.Type = "StatementInsert"]
             parts == Fields(buffer)
             id    == ParseUint(parts[2])
             username == Truncate(parts[3], COLUMN_USERNAME_SIZE)
             email    == Truncate(parts[4], COLUMN_EMAIL_SIZE)
         IN  IF Len(parts) < 4
             THEN [result |-> "PrepareSyntaxError", statement |-> typed]
             ELSE IF id.err # "nil"
             THEN [result |-> "PrepareSyntaxError", statement |-> typed]
             ELSE [result |-> "PrepareSuccess",
                   statement |->
                     [typed EXCEPT
                        !.RowToInsert.ID = id.val,
                        !.RowToInsert.Username = Copy(@, username),
                        !.RowToInsert.Email = Copy(@, email)]]
    ELSE IF IsSelect(buffer)
    THEN [result |-> "PrepareSuccess",
          statement |-> [statement EXCEPT !.Type = "StatementSelect"]]
    ELSE [result |-> "PrepareUnrecognizedStatement", statement |-> statement]

(***************************************************************************)
(* The executor (main.go:210-240).  Each returns the result, the table as  *)
(* left by the call, the lines printed and the calls of rowSlot it made.   *)
(* The result "panic" stands for a run-time panic raised by rowSlot, which *)
(* does not return.                                                        *)
(***************************************************************************)
\* The body of executeInsert below its capacity check (main.go:215-219).
insertRow(statement, table) ==
    LET slot == rowSlot(table, table.NumRows)
        stored == StoreSlot(slot, serializeRow(statement.RowToInsert,
                                               LoadSlot(slot)))
    IN  IF slot.panic
        THEN [result |-> "panic", table |-> slot.table, printed |-> <<>>,
              slots |-> <<SlotCall(slot)>>]
        ELSE [result |-> "ExecuteSuccess",
              table |-> [stored EXCEPT !.NumRows = @ + 1],
              printed |-> <<>>,
              slots |-> <<SlotCall(slot)>>]

\* The slip of reporting a full table one row early.
executeInsertFullEarly(statement, table) ==
    IF table.NumRows >= TABLE_MAX_ROWS - 1
    THEN [result |-> "ExecuteTableFull", table |-> table, printed |-> <<>>,
          slots |-> <<>>]
    ELSE insertRow(statement, table)

\* The slip of refusing only past the capacity (> for >=).
executeInsertPastCapacity(statement, table) ==
    IF table.NumRows > TABLE_MAX_ROWS
    THEN [result |-> "ExecuteTableFull", table |-> table, printed |-> <<>>,
          slots |-> <<>>]
    ELSE insertRow(statement, table)

\* The slip of counting the row before the capacity check.
executeInsertCountsRefused(statement, table) ==
    IF table.NumRows >= TABLE_MAX_ROWS
    THEN [result |-> "ExecuteTableFull",
          table |-> [table EXCEPT !.NumRows = @ + 1],
          printed |-> <<>>, slots |-> <<>>]
    ELSE insertRow(statement, table)

\* The slip of leaving out table.NumRows++.
executeInsertNoCount(statement, table) ==
    IF table.NumRows >= TABLE_MAX_ROWS
    THEN [result |-> "ExecuteTableFull", table |-> table, printed |-> <<>>,
          slots |-> <<>>]
    ELSE LET slot == rowSlot(table, table.NumRows)
             stored == StoreSlot(slot, serializeRow(statement.RowToInsert,
                                                    LoadSlot(slot)))
         IN  [result |-> "ExecuteSuccess", table |-> stored,
              printed |-> <<>>, slots |-> <<SlotCall(slot)>>]

executeInsert(statement, table) ==
    IF table.NumRows >= TABLE_MAX_ROWS
    THEN [result |-> "ExecuteTableFull", table |-> table, printed |-> <<>>,
          slots |-> <<>>]
    ELSE insertRow(statement, table)

\* The loop of executeSelect from row i on: `row` is the local it decodes
\* into, `printed` the lines written so far, `slots` the calls of rowSlot
\* made so far.
RECURSIVE selectLoop(_, _, _, _, _)
selectLoop(table, i, row, printed, slots) ==
    IF i < table.NumRows
    THEN LET slot == rowSlot(table, i)
             decoded == deserializeRow(LoadSlot(slot), row)
         IN  IF slot.panic
             THEN [result |-> "panic", table |-> slot.table,
                   printed |-> printed,
                   slots |-> Append(slots, SlotCall(slot))]
             ELSE selectLoop(slot.table, i + 1, decoded,
                             Append(printed, printRow(decoded)),
                             Append(slots, SlotCall(slot)))
    ELSE [result |-> "ExecuteSuccess", table |-> table, printed |-> printed,
          slots |-> slots]

\* The slip of scanning from the last row down to the first.
RECURSIVE selectLoopDescending(_, _, _, _, _)
selectLoopDescending(table, i, row, printed, slots) ==
    IF i < table.NumRows
    THEN LET slot == rowSlot(table, table.NumRows - 1 - i)
             decoded == deserializeRow(LoadSlot(slot), row)
         IN  selectLoopDescending(slot.table, i + 1, decoded,
                                  Append(printed, printRow(decoded)),
                                  Append(slots, SlotCall(slot)))
    ELSE [result |-> "ExecuteSuccess", table |-> table, printed |-> printed,
          slots |-> slots]

executeSelectDescending(statement, table) ==
    selectLoopDescending(table, 0, ZeroRow, <<>>, <<>>)

\* The slip of scanning up to and including row NumRows (<= for <).
RECURSIVE selectLoopInclusive(_, _, _, _, _)
selectLoopInclusive(table, i, row, printed, slots) ==
    IF i <= table.NumRows
    THEN LET slot == rowSlot(table, i)
             decoded == deserializeRow(LoadSlot(slot), row)
         IN  IF slot.panic
             THEN [result |-> "panic", table |-> slot.table,
                   printed |-> printed,
                   slots |-> Append(slots, SlotCall(slot))]
             ELSE selectLoopInclusive(slot.table, i + 1, decoded,
                                      Append(printed, printRow(decoded)),
                                      Append(slots, SlotCall(slot)))
    ELSE [result |-> "ExecuteSuccess", table |-> table, printed |-> printed,
          slots |-> slots]

executeSelectInclusive(statement, table) ==
    selectLoopInclusive(table, 0, ZeroRow, <<>>, <<>>)

\* executeSelect: `var row Row`, then the loop, then ExecuteSuccess.
executeSelect(statement, table) ==
    selectLoop(table, 0, ZeroRow, <<>>, <<>>)

executeStatement(statement, table) ==
    CASE statement.Type = "StatementInsert" -> executeInsert(statement, table)
      [] statement.Type = "StatementSelect" -> executeSelect(statement, table)
      [] OTHER -> [result |-> "ExecuteSuccess", table |-> table,
                   printed |-> <<>>, slots |-> <<>>]

(***************************************************************************)
(* The lines the user types.  Each is the byte string of the text quoted   *)
(* above it.  The empty line is also what readInput leaves in the buffer   *)
(* once standard input has ended (scanner.Scan() fails, Text() is "").     *)
(***************************************************************************)
\* `insert 3 carol carol@x.com`
lineInsert3 ==
    <<105, 110, 115, 101, 114, 116, 32, 51, 32, 99, 97, 114, 111, 108, 32,
    99, 97, 114, 111, 108, 64, 120, 46, 99, 111, 109>>

\* `insert 1 alice alice@x.com`
lineInsert1 ==
    <<105, 110, 115, 101, 114, 116, 32, 49, 32, 97, 108, 105, 99, 101, 32,
    97, 108, 105, 99, 101, 64, 120, 46, 99, 111, 109>>

\* `insert 2 bob bob@x.com`
lineInsert2 ==
    <<105, 110, 115, 101, 114, 116, 32, 50, 32, 98, 111, 98, 32, 98, 111,
    98, 64, 120, 46, 99, 111, 109>>

\* `select`
lineSelect ==
    <<115, 101, 108, 101, 99, 116>>

\* `.exit`
lineExit ==
    <<46, 101, 120, 105, 116>>

\* `.tables`
lineTables ==
    <<46, 116, 97, 98, 108, 101, 115>>

\* `foobar`
lineFoobar ==
    <<102, 111, 111, 98, 97, 114>>

\* `insert foo bar baz`
lineInsertFoo ==
    <<105, 110, 115, 101, 114, 116, 32, 102, 111, 111, 32, 98, 97, 114,
    32, 98, 97, 122>>

\* ``
lineEmpty ==
    <<>>

\* `insert -1 a b`
lineNegative ==
    <<105, 110, 115, 101, 114, 116, 32, 45, 49, 32, 97, 32, 98>>

\* `insert +5 a b`
linePlus ==
    <<105, 110, 115, 101, 114, 116, 32, 43, 53, 32, 97, 32, 98>>

\* `insert 1x a b`
lineDigitLetter ==
    <<105, 110, 115, 101, 114, 116, 32, 49, 120, 32, 97, 32, 98>>

\* `insert 4294967296 a b`
lineTwoTo32 ==
    <<105, 110, 115, 101, 114, 116, 32, 52, 50, 57, 52, 57, 54, 55, 50,
    57, 54, 32, 97, 32, 98>>

\* `insert 4294967295 max m@x`
lineMaxId ==
    <<105, 110, 115, 101, 114, 116, 32, 52, 50, 57, 52, 57, 54, 55, 50,
    57, 53, 32, 109, 97, 120, 32, 109, 64, 120>>

\* `insert 99999999999999999999 a b`
lineHuge ==
    <<105, 110, 115, 101, 114, 116, 32, 57, 57, 57, 57, 57, 57, 57, 57,
    57, 57, 57, 57, 57, 57, 57, 57, 57, 57, 57, 57, 32, 97, 32, 98>>

\* `insert 0 zero z@x`
lineZeroId ==
    <<105, 110, 115, 101, 114, 116, 32, 48, 32, 122, 101, 114, 111, 32,
    122, 64, 120>>

\* `insert 007 bond b@x`
lineLeadingZeros ==
    <<105, 110, 115, 101, 114, 116, 32, 48, 48, 55, 32, 98, 111, 110, 100,
    32, 98, 64, 120>>

\* `insert 65536 hi h@x`
lineId65536 ==
    <<105, 110, 115, 101, 114, 116, 32, 54, 53, 53, 51, 54, 32, 104, 105,
    32, 104, 64, 120>>

\* `insert 1 a`
lineThreeFields ==
    <<105, 110, 115, 101, 114, 116, 32, 49, 32, 97>>

\* `insert 1 a b c`
lineFiveFields ==
    <<105, 110, 115, 101, 114, 116, 32, 49, 32, 97, 32, 98, 32, 99>>

\* `insert`
lineInsertOnly ==
    <<105, 110, 115, 101, 114, 116>>

\* `insert5 6 a b`
lineInsert5 ==
    <<105, 110, 115, 101, 114, 116, 53, 32, 54, 32, 97, 32, 98>>

\* `insert\t2  dan \td@y `
lineTabs ==
    <<105, 110, 115, 101, 114, 116, 9, 50, 32, 32, 100, 97, 110, 32, 9,
    100, 64, 121, 32>>

\* `insert 8 e\x00f g\x00h`
lineNul ==
    <<105, 110, 115, 101, 114, 116, 32, 56, 32, 101, 0, 102, 32, 103, 0,
    104>>

\* ` insert 1 a b`
lineLeadingSpace ==
    <<32, 105, 110, 115, 101, 114, 116, 32, 49, 32, 97, 32, 98>>

\* `select `
lineSelectSpace ==
    <<115, 101, 108, 101, 99, 116, 32>>

\* `select 1`
lineSelectArg ==
    <<115, 101, 108, 101, 99, 116, 32, 49>>

\* `selectx`
lineSelectx ==
    <<115, 101, 108, 101, 99, 116, 120>>

\* `SELECT`
lineUpperSelect ==
    <<83, 69, 76, 69, 67, 84>>

\* The lowercase alphabet repeated to length n.
Alphabet(n) == [i \in 1..n |-> 97 + ((i - 1) % 26)]

\* `insert <id> <username> <email>` with single spaces.
InsertLine(id, username, email) ==
    kwInsert \o <<32>> \o id \o <<32>> \o username \o <<32>> \o email

\* Tokens one byte below the field capacities: stored whole.
lineBelowCapacity ==
    InsertLine(<<52>>, Alphabet(COLUMN_USERNAME_SIZE - 1),
               Alphabet(COLUMN_EMAIL_SIZE - 1))

\* Tokens of exactly the field capacities: cut by one byte.
lineAtCapacity ==
    InsertLine(<<53>>, Alphabet(COLUMN_USERNAME_SIZE),
               Alphabet(COLUMN_EMAIL_SIZE))

\* Tokens above the field capacities.
lineAboveCapacity ==
    InsertLine(<<54>>, Alphabet(COLUMN_USERNAME_SIZE + 5),
               Alphabet(COLUMN_EMAIL_SIZE + 1))

\* `.exit ` (.exit and a space)
lineExitSpace == <<46, 101, 120, 105, 116, 32>>

\* ` .exit` (a space and .exit)
lineSpaceExit == <<32, 46, 101, 120, 105, 116>>

\* `.`
lineDot == <<46>>

\* The session of the wide specification: three rows whose ids are out of
\* order (RowLines), and a select and one line for each way a line can fail
\* (OtherLines).
RowLines == {lineInsert3, lineInsert1, lineInsert2}

OtherLines ==
    {lineSelect, lineExit, lineTables, lineFoobar, lineInsertFoo, lineEmpty}

Lines == RowLines \cup OtherLines

\* The lines of the parser specification: those that store a row
\* (ParseRowLines) and those that do not (ParseOtherLines).
ParseRowLines ==
    {lineInsert1, lineMaxId, lineZeroId, lineLeadingZeros, lineId65536,
     lineFiveFields, lineInsert5, lineTabs, lineNul, lineBelowCapacity,
     lineAtCapacity, lineAboveCapacity}

ParseOtherLines ==
    {lineSelect, lineExit, lineTables, lineFoobar, lineInsertFoo, lineEmpty,
     lineNegative, linePlus, lineDigitLetter, lineTwoTo32, lineHuge,
     lineThreeFields, lineInsertOnly, lineLeadingSpace, lineSelectSpace,
     lineSelectArg, lineSelectx, lineUpperSelect, lineExitSpace,
     lineSpaceExit, lineDot}

ParseLines == ParseRowLines \cup ParseOtherLines

\* The insert line of the filling session when n rows are stored: the row
\* numbered n, so that every stored row differs from the others.
FillInsert(n) == InsertLine(FormatUint(<<0, n>>), <<102, 105, 108, 108>>,
                            <<102, 64, 120>>)

(***************************************************************************)
(* State.                                                                  *)
(***************************************************************************)
VARIABLES
    table,          \* main's table: NumRows and Pages
    inputBuffer,    \* inputBuffer.buffer: the line last read
    statement,      \* main's statement of this iteration (main.go:261)
    metaResult,     \* what parseAndExecuteMeta returned this iteration
    prepareResult,  \* what prepareStatement returned this iteration
    executeResult,  \* what executeStatement returned this iteration
    out,            \* what was printed since, and including, the last prompt
    pc,             \* "read": at the top of the loop; "dispatch": a line was
                    \* read; "exited": os.Exit was called; "panicked": the
                    \* run time stopped the process on a failed bounds check
    exitCode,       \* the exit status of the process, -1 while it runs
    eof,            \* the scanner has met the end of standard input
    slotCalls,      \* history: the calls of rowSlot made this iteration
    inserted        \* history: the successful inserts in order, each the
                    \* line typed and the row it carried

vars ==
    <<table, inputBuffer, statement, metaResult, prepareResult, executeResult,
      out, pc, exitCode, eof, slotCalls, inserted>>

Init ==
    /\ table = newTable
    /\ inputBuffer = <<>>
    /\ statement = NewStatement
    /\ metaResult = "none"
    /\ prepareResult = "none"
    /\ executeResult = "none"
    /\ out = <<>>
    /\ pc = "read"
    /\ exitCode = -1
    /\ eof = FALSE
    /\ slotCalls = <<>>
    /\ inserted = <<>>

(***************************************************************************)
(* One iteration of main's loop (main.go:247-280).                         *)
(***************************************************************************)
\* The slip of leaving the process when standard input has ended.
ReadInputExitAtEof(offered) ==
    /\ pc = "read"
    /\ \/ /\ ~eof
          /\ \E line \in offered : inputBuffer' = line
          /\ pc' = "dispatch"
          /\ UNCHANGED <<eof, exitCode>>
       \/ /\ inputBuffer' = <<>>
          /\ eof' = TRUE
          /\ pc' = "exited"
          /\ exitCode' = 0
    /\ out' = <<Printed("db > ", <<>>)>>
    /\ statement' = NewStatement
    /\ metaResult' = "none"
    /\ prepareResult' = "none"
    /\ executeResult' = "none"
    /\ slotCalls' = <<>>
    /\ UNCHANGED <<table, inserted>>

\* printPrompt and readInput: the user types one of the lines of `offered`,
\* or standard input ends.  Once it has ended scanner.Scan() fails on every
\* call and scanner.Text() is the empty string.
ReadInput(offered) ==
    /\ pc = "read"
    /\ \/ /\ ~eof
          /\ \E line \in offered : inputBuffer' = line
          /\ UNCHANGED eof
       \/ /\ inputBuffer' = <<>>
          /\ eof' = TRUE
    /\ out' = <<Printed("db > ", <<>>)>>
    /\ statement' = NewStatement
    /\ metaResult' = "none"
    /\ prepareResult' = "none"
    /\ executeResult' = "none"
    /\ slotCalls' = <<>>
    /\ pc' = "dispatch"
    /\ UNCHANGED <<table, exitCode, inserted>>

\* The line starts with a dot: .exit leaves the process, any other
\* meta-command is reported and the loop continues.
MetaCommand ==
    /\ pc = "dispatch"
    /\ isMetaCommand(inputBuffer)
    /\ LET r == parseAndExecuteMeta(inputBuffer)
       IN  IF r = "exit"
           THEN /\ pc' = "exited"
                /\ exitCode' = 0
                /\ UNCHANGED <<metaResult, out>>
           ELSE /\ metaResult' = r
                /\ out' = IF r = "MetaCommandUnrecognized"
                          THEN Append(out,
                                      Printed("Unrecognized command '%s'\n",
                                              <<inputBuffer>>))
                          ELSE out
                /\ pc' = "read"
                /\ UNCHANGED exitCode
    /\ UNCHANGED <<table, inputBuffer, statement, prepareResult,
                   executeResult, eof, slotCalls, inserted>>

\* The slip of leaving the switch (break) where the loop should go on
\* (continue) after a refused line: the statement is executed as it was left.
PrepareFailedFallsThrough ==
    /\ pc = "dispatch"
    /\ ~isMetaCommand(inputBuffer)
    /\ LET p == prepareStatement(inputBuffer, NewStatement)
           e == executeStatement(p.statement, table)
       IN  /\ p.result # "PrepareSuccess"
           /\ prepareResult' = p.result
           /\ statement' = p.statement
           /\ executeResult' = e.result
           /\ table' = e.table
           /\ slotCalls' = e.slots
           /\ out' = Append(out,
                  IF p.result = "PrepareSyntaxError"
                  THEN Printed("Syntax error. Could not parse statement.\n",
                               <<>>)
                  ELSE Printed("Unrecognized keyword at start of '%s'.\n",
                               <<inputBuffer>>))
    /\ pc' = "read"
    /\ UNCHANGED <<inputBuffer, metaResult, exitCode, eof, inserted>>

\* prepareStatement refused the line: the error is printed, nothing is
\* executed.
PrepareFailed ==
    /\ pc = "dispatch"
    /\ ~isMetaCommand(inputBuffer)
    /\ LET p == prepareStatement(inputBuffer, NewStatement)
       IN  /\ p.result # "PrepareSuccess"
           /\ prepareResult' = p.result
           /\ statement' = p.statement
           /\ out' = Append(out,
                  IF p.result = "PrepareSyntaxError"
                  THEN Printed("Syntax error. Could not parse statement.\n",
                               <<>>)
                  ELSE Printed("Unrecognized keyword at start of '%s'.\n",
                               <<inputBuffer>>))
    /\ pc' = "read"
    /\ UNCHANGED <<table, inputBuffer, metaResult, executeResult, exitCode,
                   eof, slotCalls, inserted>>

\* The slip of reporting every execution as a success.
executeOutputAlwaysExecuted(result) ==
    IF result = "panic" THEN <<>> ELSE <<Printed("Executed.\n", <<>>)>>

\* The switch on the result of executeStatement (main.go:273-278): it has
\* no default, and nothing is printed when executeStatement does not return.
executeOutput(result) ==
    CASE result = "ExecuteSuccess" -> <<Printed("Executed.\n", <<>>)>>
      [] result = "ExecuteTableFull" ->
            <<Printed("Error: Table full.\n", <<>>)>>
      [] OTHER -> <<>>

\* prepareStatement accepted the line: the statement is executed and its
\* result printed.  A panic in rowSlot ends the process with status 2.
Execute ==
    /\ pc = "dispatch"
    /\ ~isMetaCommand(inputBuffer)
    /\ LET p == prepareStatement(inputBuffer, NewStatement)
           e == executeStatement(p.statement, table)
       IN  /\ p.result = "PrepareSuccess"
           /\ prepareResult' = p.result
           /\ statement' = p.statement
           /\ executeResult' = e.result
           /\ table' = e.table
           /\ slotCalls' = e.slots
           /\ out' = (out \o e.printed) \o executeOutput(e.result)
           /\ inserted' =
                IF p.statement.Type = "StatementInsert"
                   /\ e.result = "ExecuteSuccess"
                THEN Append(inserted, [line |-> inputBuffer,
                                       row |-> p.statement.RowToInsert])
                ELSE inserted
           /\ pc' = IF e.result = "panic" THEN "panicked" ELSE "read"
           /\ exitCode' = IF e.result = "panic" THEN 2 ELSE exitCode
    /\ UNCHANGED <<inputBuffer, metaResult, eof>>

(***************************************************************************)
(* Specifications: the same program under three users.                     *)
(***************************************************************************)
\* Any line of Lines, in any order; no further row once MaxRows rows are
\* stored.
Offered == IF table.NumRows < MaxRows THEN Lines ELSE OtherLines

Next == ReadInput(Offered) \/ MetaCommand \/ PrepareFailed \/ Execute

Spec == Init /\ [][Next]_vars

\* Any line of ParseLines; no further row once MaxParseRows rows are stored.
OfferedParse ==
    IF table.NumRows < MaxParseRows THEN ParseLines ELSE ParseOtherLines

NextParse ==
    ReadInput(OfferedParse) \/ MetaCommand \/ PrepareFailed \/ Execute

SpecParse == Init /\ [][NextParse]_vars

\* The user fills the table: row after row, numbered, past the capacity,
\* with selects and failing lines in between.  The first row is the
\* numbered one or `insert 1 alice alice@x.com`.
OfferedFill ==
    ({FillInsert(table.NumRows)} \cup OtherLines)
    \cup (IF table.NumRows = 0 THEN {lineInsert1} ELSE {})

NextFill == ReadInput(OfferedFill) \/ MetaCommand \/ PrepareFailed \/ Execute

SpecFill == Init /\ [][NextFill]_vars

(***************************************************************************)
(* Vocabulary of the properties.  Slot addressing is restated here from    *)
(* the layout (page i div ROWS_PER_PAGE, byte offset (i mod ROWS_PER_PAGE) *)
(* * ROW_SIZE), independently of rowSlot.                                  *)
(***************************************************************************)
SlotPage(i) == i \div ROWS_PER_PAGE

SlotOffset(i) == (i % ROWS_PER_PAGE) * ROW_SIZE

\* The ROW_SIZE bytes of slot i in table t (its page is allocated).
SlotBytes(t, i) ==
    SubSeq(t.Pages[SlotPage(i)], SlotOffset(i) + 1, SlotOffset(i) + ROW_SIZE)

\* A page's bytes, an unallocated page counting as zero-filled.
PageBytes(t, p) == IF t.Pages[p] = <<>> THEN Zeros(PAGE_SIZE) ELSE t.Pages[p]

\* The step handles the line read and the line is an insert that parsed.
InsertStep ==
    /\ pc = "dispatch"
    /\ prepareResult' = "PrepareSuccess"
    /\ statement'.Type = "StatementInsert"

\* The state is the one left by an insert that succeeded.
AfterInsert ==
    /\ pc = "read"
    /\ prepareResult = "PrepareSuccess"
    /\ statement.Type = "StatementInsert"
    /\ executeResult = "ExecuteSuccess"

\* The state is the one left by a select.
AfterSelect ==
    /\ pc = "read"
    /\ prepareResult = "PrepareSuccess"
    /\ statement.Type = "StatementSelect"

(***************************************************************************)
(* C1.  An insert executed when numRows = TABLE_MAX_ROWS returns TableFull *)
(* and leaves numRows and every page unchanged; TableFull is returned only *)
(* after exactly TABLE_MAX_ROWS successful inserts, with numRows still     *)
(* TABLE_MAX_ROWS, and an insert below the capacity succeeds.              *)
(***************************************************************************)
C1_TableFullAtCapacity ==
    /\ [](executeResult = "ExecuteTableFull"
            => Len(inserted) = TABLE_MAX_ROWS
               /\ table.NumRows = TABLE_MAX_ROWS)
    /\ [][InsertStep =>
            IF table.NumRows = TABLE_MAX_ROWS
            THEN executeResult' = "ExecuteTableFull" /\ table' = table
            ELSE executeResult' = "ExecuteSuccess"]_vars

C1_Witness ==
    /\ pc = "read"
    /\ statement.Type = "StatementInsert"
    /\ executeResult = "ExecuteTableFull"
    /\ Len(inserted) = TABLE_MAX_ROWS
    /\ table.NumRows = TABLE_MAX_ROWS

(***************************************************************************)
(* C2.  A select emits exactly numRows rows, for i ascending from 0 to     *)
(* numRows - 1, and the i-th row emitted is the row of the i-th successful *)
(* insert (its id and the bytes of its fields, which the i-th slot holds): *)
(* rows are never reordered or sorted.                                     *)
(***************************************************************************)
C2_SelectInInsertionOrder ==
    AfterSelect =>
        /\ table.NumRows = Len(inserted)
        /\ Len(out) = table.NumRows + 2
        /\ \A i \in 1..Len(inserted) :
             /\ out[i + 1] = printRow(inserted[i].row)
             /\ deserializeRow(SlotBytes(table, i - 1), ZeroRow)
                  = inserted[i].row
        /\ out[Len(out)] = Printed("Executed.\n", <<>>)

\* Rows with ids 3, 1, 2 were inserted in that order and a select printed
\* them as 3, 1, 2.
C2_Witness ==
    /\ AfterSelect
    /\ [i \in 1..Len(inserted) |-> inserted[i].line]
         = <<lineInsert3, lineInsert1, lineInsert2>>
    /\ Len(out) = 5
    /\ out[2].args = <<<<51>>, <<99, 97, 114, 111, 108>>,
                       <<99, 97, 114, 111, 108, 64, 120, 46, 99, 111, 109>>>>
    /\ out[3].args[1] = <<49>>
    /\ out[4].args[1] = <<50>>

(***************************************************************************)
(* C3.  Every operation is all-or-nothing.  A successful insert increments *)
(* numRows and changes only the ROW_SIZE bytes of slot(numRows): every     *)
(* slot below numRows and every other byte of every page keeps its value   *)
(* (a page allocated by the insert is zero outside the slot).  A failed    *)
(* operation (TableFull, syntax error, unrecognized statement,             *)
(* unrecognized meta-command) changes neither numRows nor any page.        *)
(***************************************************************************)
FailedStep ==
    /\ pc = "dispatch"
    /\ \/ executeResult' = "ExecuteTableFull"
       \/ prepareResult' \in {"PrepareSyntaxError",
                              "PrepareUnrecognizedStatement"}
       \/ metaResult' = "MetaCommandUnrecognized"

InsertFrame ==
    LET n == table.NumRows
        off == SlotOffset(n)
    IN  /\ table'.NumRows = n + 1
        /\ \A i \in 0..(n - 1) : SlotBytes(table', i) = SlotBytes(table, i)
        /\ \A p \in DOMAIN table.Pages :
             IF p = SlotPage(n)
             THEN /\ SubSeq(table'.Pages[p], 1, off)
                       = SubSeq(PageBytes(table, p), 1, off)
                  /\ SubSeq(table'.Pages[p], off + ROW_SIZE + 1, PAGE_SIZE)
                       = SubSeq(PageBytes(table, p), off + ROW_SIZE + 1,
                                PAGE_SIZE)
                  /\ Len(table'.Pages[p]) = PAGE_SIZE
             ELSE table'.Pages[p] = table.Pages[p]

C3_AllOrNothing ==
    [][/\ (InsertStep /\ executeResult' = "ExecuteSuccess") => InsertFrame
       /\ FailedStep => table' = table]_vars

\* An insert has just written the first slot of the second page, below a
\* full first page.
C3_Witness ==
    /\ AfterInsert
    /\ table.NumRows = ROWS_PER_PAGE + 1
    /\ Len(table.Pages[1]) = PAGE_SIZE

(***************************************************************************)
(* C4.  In every reachable state 0 <= numRows <= TABLE_MAX_ROWS.           *)
(***************************************************************************)
C4_NumRowsInRange == table.NumRows >= 0 /\ table.NumRows <= TABLE_MAX_ROWS

\* The table has just become full.
C4_Witness == AfterInsert /\ table.NumRows = TABLE_MAX_ROWS

(***************************************************************************)
(* C5.  The store is created empty (numRows = 0, no page allocated); on    *)
(* every step numRows stays the same or increases by exactly 1, and it     *)
(* increases exactly when an insert returns success.                       *)
(***************************************************************************)
C5_GrowsByOnePerInsert ==
    /\ table.NumRows = 0
    /\ \A p \in DOMAIN table.Pages : table.Pages[p] = <<>>
    /\ [][/\ table'.NumRows \in {table.NumRows, table.NumRows + 1}
          /\ table'.NumRows = table.NumRows + 1
               <=> (InsertStep /\ executeResult' = "ExecuteSuccess")]_vars

\* Two inserts have succeeded and a third line was refused since.
C5_Witness ==
    /\ pc = "read"
    /\ prepareResult = "PrepareSyntaxError"
    /\ table.NumRows = 2
    /\ Len(inserted) = 2

(***************************************************************************)
(* Vocabulary of the parser properties: what the text of a line says,      *)
(* stated on the tokens and not through ParseUint or Truncate.             *)
(***************************************************************************)
\* The line handled last had the insert keyword in front and at least the
\* four fields prepareStatement reads.
HandledInsertLine ==
    /\ pc = "read"
    /\ prepareResult # "none"
    /\ HasPrefix(inputBuffer, kwInsert)
    /\ Len(Fields(inputBuffer)) >= 4

\* `4294967295`, the decimal digits of 2^32 - 1.
MaxUint32Digits == <<52, 50, 57, 52, 57, 54, 55, 50, 57, 53>>

IsDigits(tok) == Len(tok) > 0 /\ \A i \in 1..Len(tok) : tok[i] \in 48..57

\* A digit string without its leading zeros (one digit is kept).
StripZeros(tok) ==
    LET first == CHOOSE j \in 1..Len(tok) :
                    /\ j = Len(tok) \/ tok[j] # 48
                    /\ \A k \in 1..(j - 1) : tok[k] = 48
    IN  SubSeq(tok, first, Len(tok))

\* a <= b for digit strings without leading zeros.
DecimalLeq(a, b) ==
    \/ Len(a) < Len(b)
    \/ /\ Len(a) = Len(b)
       /\ \/ a = b
          \/ \E i \in 1..Len(a) :
                a[i] < b[i] /\ \A k \in 1..(i - 1) : a[k] = b[k]

\* The token is a non-negative decimal integer that fits in 32 bits.
IsUint32Token(tok) ==
    IsDigits(tok) /\ DecimalLeq(StripZeros(tok), MaxUint32Digits)

\* The first n bytes of a token (the token when it is shorter).
Prefix(tok, n) == SubSeq(tok, 1, IF Len(tok) < n THEN Len(tok) ELSE n)

\* s followed by zero bytes up to length n.
Pad(s, n) == s \o Zeros(n - Len(s))

\* s up to its first zero byte (s when it has none).
BeforeFirstZero(s) ==
    LET stop == CHOOSE j \in 1..(Len(s) + 1) :
                   /\ j = Len(s) + 1 \/ s[j] = 0
                   /\ \A k \in 1..(j - 1) : s[k] # 0
    IN  SubSeq(s, 1, stop - 1)

(***************************************************************************)
(* C6 (as claimed).  A line starting with `insert` whose number of         *)
(* whitespace-separated fields is not exactly 4 yields SyntaxError and     *)
(* nothing is executed.  The code refuses only fewer than 4 fields         *)
(* (main.go:173): `insert 1 a b c` is accepted and stores a row.           *)
(***************************************************************************)
C6_ExactlyFourFields ==
    (/\ pc = "read"
     /\ prepareResult # "none"
     /\ HasPrefix(inputBuffer, kwInsert)
     /\ Len(Fields(inputBuffer)) # 4)
    => (prepareResult = "PrepareSyntaxError" /\ executeResult = "none")

(***************************************************************************)
(* C7.  The id token of an insert line must be a non-negative decimal      *)
(* integer that fits in 32 bits.  If it is not, the result is SyntaxError, *)
(* `Syntax error. Could not parse statement.` is printed, nothing is       *)
(* executed and the table is unchanged; if it is, the id of the statement  *)
(* and the id stored are the token's value, without wrap-around.           *)
(***************************************************************************)
C7_IdParsesAsUint32 ==
    /\ [](HandledInsertLine =>
            LET tok == Fields(inputBuffer)[2]
            IN  IF IsUint32Token(tok)
                THEN /\ prepareResult = "PrepareSuccess"
                     /\ FormatUint(statement.RowToInsert.ID) = StripZeros(tok)
                     /\ executeResult = "ExecuteSuccess" =>
                          FormatUint(Uint32(SubSeq(
                              SlotBytes(table, table.NumRows - 1), 1, 4)))
                            = StripZeros(tok)
                ELSE /\ prepareResult = "PrepareSyntaxError"
                     /\ executeResult = "none"
                     /\ out = <<Printed("db > ", <<>>),
                                Printed("Syntax error. Could not parse statement.\n",
                                        <<>>)>>)
    /\ [][(pc = "dispatch" /\ prepareResult' = "PrepareSyntaxError")
            => table' = table]_vars

\* 2^32 was refused with a row already stored.
C7_Witness ==
    /\ HandledInsertLine
    /\ inputBuffer = lineTwoTo32
    /\ prepareResult = "PrepareSyntaxError"
    /\ table.NumRows = 1
    /\ inserted[1].line = lineMaxId
    /\ SubSeq(SlotBytes(table, 0), 1, 4) = <<255, 255, 255, 255>>

(***************************************************************************)
(* C8.  Truncation.  An inserted username token of length >= 32 is stored  *)
(* as its first 31 bytes followed by a zero byte, an email token of length *)
(* >= 255 as its first 254 bytes followed by a zero byte; a shorter token  *)
(* is stored whole, the rest of the field being zero.                      *)
(***************************************************************************)
StoredTruncated ==
    AfterInsert =>
        LET parts == Fields(inputBuffer)
            w == SlotBytes(table, table.NumRows - 1)
        IN  /\ SubSeq(w, 5, 4 + COLUMN_USERNAME_SIZE)
                 = Pad(Prefix(parts[3], COLUMN_USERNAME_SIZE - 1),
                       COLUMN_USERNAME_SIZE)
            /\ SubSeq(w, 5 + COLUMN_USERNAME_SIZE, ROW_SIZE)
                 = Pad(Prefix(parts[4], COLUMN_EMAIL_SIZE - 1),
                       COLUMN_EMAIL_SIZE)

\* C8 as claimed: the bytes are stored so, and select prints exactly the
\* (truncated) token.
C8_SelectPrintsToken ==
    /\ StoredTruncated
    /\ AfterSelect =>
         \A i \in 1..Len(inserted) :
            LET parts == Fields(inserted[i].line)
            IN  /\ out[i + 1].args[2]
                     = Prefix(parts[3], COLUMN_USERNAME_SIZE - 1)
                /\ out[i + 1].args[3]
                     = Prefix(parts[4], COLUMN_EMAIL_SIZE - 1)

\* C8 as amended: the bytes are stored so, and select prints the
\* (truncated) token up to its first zero
\* byte, which is the whole of it when it contains none.
C8_SelectPrintsTokenToFirstZero ==
    /\ StoredTruncated
    /\ AfterSelect =>
         \A i \in 1..Len(inserted) :
            LET parts == Fields(inserted[i].line)
            IN  /\ out[i + 1].args[2]
                     = BeforeFirstZero(Prefix(parts[3],
                                              COLUMN_USERNAME_SIZE - 1))
                /\ out[i + 1].args[3]
                     = BeforeFirstZero(Prefix(parts[4],
                                              COLUMN_EMAIL_SIZE - 1))

\* A 32-byte username and a 255-byte email were inserted and a select
\* printed 31 and 254 bytes of them.
C8_Witness ==
    /\ AfterSelect
    /\ Len(inserted) = 1
    /\ inserted[1].line = lineAtCapacity
    /\ Len(Fields(inserted[1].line)[3]) = 32
    /\ Len(Fields(inserted[1].line)[4]) = 255
    /\ out[2].args[2] = Alphabet(31)
    /\ out[2].args[3] = Alphabet(254)

(***************************************************************************)
(* C9.  The parser returns exactly one of three outcomes for a line: a     *)
(* statement, SyntaxError or UnrecognizedStatement.  The statement is a    *)
(* Select exactly when the line equals `select`; an Insert statement or    *)
(* SyntaxError is returned only for a line that starts with `insert`;      *)
(* every other line is an UnrecognizedStatement.                           *)
(***************************************************************************)
C9_ParserOutcomes ==
    (pc = "read" /\ prepareResult # "none") =>
        /\ prepareResult \in {"PrepareSuccess", "PrepareSyntaxError",
                              "PrepareUnrecognizedStatement"}
        /\ statement.Type \in {"StatementInsert", "StatementSelect"}
        /\ (prepareResult = "PrepareSuccess"
              /\ statement.Type = "StatementSelect")
             <=> inputBuffer = lineSelect
        /\ (\/ prepareResult = "PrepareSyntaxError"
            \/ prepareResult = "PrepareSuccess"
                 /\ statement.Type = "StatementInsert")
             => HasPrefix(inputBuffer, kwInsert)
        /\ prepareResult = "PrepareUnrecognizedStatement"
             <=> (~HasPrefix(inputBuffer, kwInsert)
                    /\ inputBuffer # lineSelect)

\* `select 1` was refused as an unrecognized statement.
C9_Witness ==
    /\ pc = "read"
    /\ inputBuffer = lineSelectArg
    /\ prepareResult = "PrepareUnrecognizedStatement"
    /\ executeResult = "none"

(***************************************************************************)
(* C10.  Round trip.  Decoding the window a row was encoded into gives the *)
(* row back (id and the bytes of username and email), whatever the window  *)
(* held before; the id is in bytes [0,4) little-endian, the username in    *)
(* [4,36) and the email in [36,291) of the ROW_SIZE-byte window.           *)
(***************************************************************************)
C10_RoundTrip ==
    AfterInsert =>
        LET r == statement.RowToInsert
            w == SlotBytes(table, table.NumRows - 1)
        IN  /\ Len(w) = 291
            /\ ROW_SIZE = 291
            /\ deserializeRow(w, ZeroRow) = r
            /\ w[1] + 256 * w[2] = r.ID[2]
            /\ w[3] + 256 * w[4] = r.ID[1]
            /\ SubSeq(w, 5, 36) = r.Username
            /\ SubSeq(w, 37, 291) = r.Email
            /\ \A fill \in {0, 255} :
                 deserializeRow(serializeRow(r, Rep(fill, ROW_SIZE)), ZeroRow)
                   = r

\* Id 65536 was stored as the bytes 0, 0, 1, 0.
C10_Witness ==
    /\ AfterInsert
    /\ inputBuffer = lineId65536
    /\ statement.RowToInsert.ID = <<1, 0>>
    /\ SubSeq(SlotBytes(table, 0), 1, 6) = <<0, 0, 1, 0, 104, 105>>

(***************************************************************************)
(* C11.  rowSlot is deterministic and idempotent: for every i below        *)
(* TABLE_MAX_ROWS it returns the window of ROW_SIZE bytes at byte offset   *)
(* (i mod ROWS_PER_PAGE) * ROW_SIZE of page i div ROWS_PER_PAGE, showing   *)
(* the bytes stored there (zeros when the page did not exist); a second    *)
(* call with the same i addresses the same page and offset, sees the same  *)
(* bytes and changes nothing in the store, whether or not the page existed *)
(* before the first call.                                                  *)
(***************************************************************************)
C11_SlotIdempotent ==
    \A i \in 0..(TABLE_MAX_ROWS - 1) :
        LET first == rowSlot(table, i)
            second == rowSlot(first.table, i)
        IN  /\ ~first.panic
            /\ first.pageNum = SlotPage(i)
            /\ first.byteOffset = SlotOffset(i)
            /\ Len(LoadSlot(first)) = ROW_SIZE
            /\ LoadSlot(first)
                 = SubSeq(PageBytes(table, SlotPage(i)),
                          SlotOffset(i) + 1, SlotOffset(i) + ROW_SIZE)
            /\ first.table.NumRows = table.NumRows
            /\ \A p \in DOMAIN table.Pages :
                 first.table.Pages[p] = IF p = SlotPage(i)
                                        THEN PageBytes(table, p)
                                        ELSE table.Pages[p]
            /\ ~second.panic
            /\ second.pageNum = first.pageNum
            /\ second.byteOffset = first.byteOffset
            /\ LoadSlot(second) = LoadSlot(first)
            /\ second.table = first.table

\* Three rows are stored in the first page and the second page does not
\* exist: a call for the third row sees its bytes, a call for the first row
\* of the second page allocates that page.
C11_Witness ==
    /\ table.NumRows = 3
    /\ table.Pages[1] = <<>>
    /\ LoadSlot(rowSlot(table, 2)) # Zeros(ROW_SIZE)
    /\ rowSlot(table, ROWS_PER_PAGE).table.Pages[1] = Zeros(PAGE_SIZE)
    /\ rowSlot(rowSlot(table, ROWS_PER_PAGE).table, ROWS_PER_PAGE).table
         = rowSlot(table, ROWS_PER_PAGE).table

(***************************************************************************)
(* C12.  Meta-commands: the line `.exit` ends the process with exit code   *)
(* 0; every other line that begins with a dot is reported as               *)
(* `Unrecognized command '<input>'`, is passed neither to the statement    *)
(* parser nor to the executor, leaves the store unchanged, and the loop    *)
(* goes on to the next prompt.                                             *)
(***************************************************************************)
C12_MetaCommands ==
    [][(pc = "dispatch" /\ Len(inputBuffer) > 0 /\ inputBuffer[1] = 46) =>
        IF inputBuffer = lineExit
        THEN /\ pc' = "exited"
             /\ exitCode' = 0
             /\ out' = out
             /\ table' = table
        ELSE /\ out' = Append(out, Printed("Unrecognized command '%s'\n",
                                           <<inputBuffer>>))
             /\ prepareResult' = "none"
             /\ statement' = NewStatement
             /\ executeResult' = "none"
             /\ slotCalls' = <<>>
             /\ table' = table
             /\ pc' = "read"
             /\ exitCode' = -1]_vars

\* A row is stored and the line `.exit ` (with a space) has been reported
\* as unrecognized: the process is at the next prompt.
C12_Witness ==
    /\ pc = "read"
    /\ exitCode = -1
    /\ inputBuffer = lineExitSpace
    /\ out = <<Printed("db > ", <<>>),
               Printed("Unrecognized command '%s'\n", <<lineExitSpace>>)>>
    /\ prepareResult = "none"
    /\ executeResult = "none"
    /\ table.NumRows = 1

(***************************************************************************)
(* Vocabulary of the status responses.                                     *)
(***************************************************************************)
\* The status response the outcome of the line handled last calls for.
ExpectedStatus ==
    IF HasPrefix(inputBuffer, kwInsert)
    THEN IF prepareResult = "PrepareSyntaxError"
         THEN Printed("Syntax error. Could not parse statement.\n", <<>>)
         ELSE IF executeResult = "ExecuteTableFull"
         THEN Printed("Error: Table full.\n", <<>>)
         ELSE Printed("Executed.\n", <<>>)
    ELSE IF inputBuffer = lineSelect
    THEN Printed("Executed.\n", <<>>)
    ELSE Printed("Unrecognized keyword at start of '%s'.\n", <<inputBuffer>>)

\* The formats of the status responses.
StatusFormats ==
    {"Executed.\n", "Error: Table full.\n",
     "Syntax error. Could not parse statement.\n",
     "Unrecognized keyword at start of '%s'.\n"}

(***************************************************************************)
(* C13.  Every line that does not begin with a dot produces exactly one    *)
(* status response before the next prompt, determined by its outcome:      *)
(* `Executed.` for a successful insert and for a select (after its rows),  *)
(* `Error: Table full.` for an insert at capacity, `Syntax error. Could    *)
(* not parse statement.` for a malformed insert, and `Unrecognized keyword *)
(* at start of '<input>'.` for any other line.  The lines `insert 1 alice  *)
(* alice@x.com`, `select` yield `Executed.`, `(1, alice, alice@x.com)`,    *)
(* `Executed.`.                                                            *)
(***************************************************************************)
C13_OneStatusPerLine ==
    (/\ pc = "read"
     /\ out # <<>>
     /\ ~(Len(inputBuffer) > 0 /\ inputBuffer[1] = 46)) =>
        /\ out[1] = Printed("db > ", <<>>)
        /\ Len(out) = 2 + (IF inputBuffer = lineSelect
                           THEN table.NumRows ELSE 0)
        /\ out[Len(out)] = ExpectedStatus
        /\ Cardinality({k \in 1..Len(out) : out[k].fmt \in StatusFormats}) = 1
        /\ \A k \in 2..(Len(out) - 1) : out[k].fmt = "(%d, %s, %s)\n"
        /\ executeResult = "ExecuteTableFull"
             => (/\ HasPrefix(inputBuffer, kwInsert)
                 /\ prepareResult = "PrepareSuccess"
                 /\ Len(inserted) = TABLE_MAX_ROWS)

\* `insert 1 alice alice@x.com` was answered `Executed.` and the `select`
\* after it printed the row and `Executed.`.
C13_Witness ==
    /\ pc = "read"
    /\ [i \in 1..Len(inserted) |-> inserted[i].line] = <<lineInsert1>>
    /\ inputBuffer = lineSelect
    /\ out = <<Printed("db > ", <<>>),
               Printed("(%d, %s, %s)\n",
                       <<<<49>>, <<97, 108, 105, 99, 101>>,
                         <<97, 108, 105, 99, 101, 64, 120, 46, 99, 111,
                           109>>>>),
               Printed("Executed.\n", <<>>)>>

(***************************************************************************)
(* C14.  The process stops only through the `.exit` meta-command, which    *)
(* stops it at once: no other line, no error outcome (syntax error,        *)
(* unrecognized statement, unrecognized meta-command, table full), no      *)
(* run-time panic and no end of input ends the loop, and every other line  *)
(* is fully processed (parsed, executed, answered) before the next line is *)
(* read.                                                                   *)
(***************************************************************************)
C14_OnlyExitStops ==
    /\ [](pc \in {"read", "dispatch", "exited"})
    /\ [](IF pc = "exited"
          THEN inputBuffer = lineExit /\ exitCode = 0
          ELSE exitCode = -1)
    /\ [](pc = "read" => ENABLED ReadInput({lineEmpty}))
    /\ [][/\ pc' = "exited" =>
               (pc = "dispatch" /\ inputBuffer = lineExit /\ out' = out)
          /\ (pc = "dispatch" /\ inputBuffer # lineExit) =>
               (/\ pc' = "read"
                /\ Len(out') > Len(out)
                /\ inputBuffer' = inputBuffer)
          /\ inputBuffer' # inputBuffer => pc = "read"
          /\ pc = "read" => (pc' = "dispatch" /\ table' = table)]_vars

\* Standard input has ended with the table full, the empty buffer has been
\* answered as an unrecognized statement and the process is at the prompt
\* again.
C14_Witness ==
    /\ eof
    /\ pc = "read"
    /\ exitCode = -1
    /\ inputBuffer = <<>>
    /\ out = <<Printed("db > ", <<>>),
               Printed("Unrecognized keyword at start of '%s'.\n",
                       <<<<>>>>)>>
    /\ table.NumRows = TABLE_MAX_ROWS

(***************************************************************************)
(* C15 as claimed.  The store is mutated exclusively by the executor, and  *)
(* the executor is called exactly once per input line.                     *)
(***************************************************************************)
C15_ExecutorOncePerLine ==
    /\ [][table' # table => (pc = "dispatch" /\ executeResult' # "none")]_vars
    /\ [][executeResult' # executeResult =>
            \/ (pc = "read" /\ executeResult' = "none")
            \/ (pc = "dispatch" /\ executeResult = "none")]_vars
    /\ []((pc \in {"read", "exited"} /\ out # <<>>)
            => executeResult # "none")

(***************************************************************************)
(* C15 as amended.  The store is mutated exclusively by the executor, and  *)
(* the executor is called at most once per input line: exactly once for a  *)
(* line the parser accepts, and not at all for a meta-command or a line    *)
(* the parser refuses.                                                     *)
(***************************************************************************)
C15_ExecutorOncePerParsedLine ==
    /\ [][table' # table =>
            (/\ pc = "dispatch"
             /\ prepareResult' = "PrepareSuccess"
             /\ executeResult' # "none"
             /\ table' = executeStatement(statement', table).table)]_vars
    /\ [][executeResult' # executeResult =>
            \/ (pc = "read" /\ executeResult' = "none")
            \/ (pc = "dispatch" /\ executeResult = "none")]_vars
    /\ []((pc \in {"read", "exited"} /\ out # <<>>)
            => (executeResult # "none" <=> prepareResult = "PrepareSuccess"))
    /\ [](metaResult # "none" => executeResult = "none")

\* Three rows are stored and the line `foobar` has been refused by the
\* parser: the executor was not called for it.
C15_Witness ==
    /\ pc = "read"
    /\ inputBuffer = lineFoobar
    /\ prepareResult = "PrepareUnrecognizedStatement"
    /\ executeResult = "none"
    /\ slotCalls = <<>>
    /\ table.NumRows = 3
    /\ Len(out) = 2

(***************************************************************************)
(* Vocabulary of the codec properties.                                     *)
(***************************************************************************)
\* The length of a field's content: the position of its last non-zero byte.
ContentLen(field) ==
    IF \A k \in 1..Len(field) : field[k] = 0
    THEN 0
    ELSE CHOOSE k \in 1..Len(field) :
            /\ field[k] # 0
            /\ \A j \in (k + 1)..Len(field) : field[j] = 0

\* The destinations a row is encoded into: a window of zeros, as a fresh
\* page holds, and a window whose every byte is 255.
Destinations == {Zeros(ROW_SIZE), Rep(255, ROW_SIZE)}

SOURCE_TABLE_MAX_PAGES == 100

(***************************************************************************)
(* C17.  Every call of rowSlot made by an insert or a select has a row     *)
(* index below TABLE_MAX_ROWS, hence a page number below TABLE_MAX_PAGES   *)
(* and a window that ends within the PAGE_SIZE bytes of the page: no call  *)
(* indexes outside the page array or outside a page, and no bounds check   *)
(* fails.  An insert calls it once, for row numRows; a refused insert does *)
(* not call it; a select calls it for rows 0 to numRows - 1.               *)
(***************************************************************************)
C17_SlotCallsInRange ==
    /\ pc # "panicked"
    /\ executeResult # "panic"
    /\ \A k \in 1..Len(slotCalls) :
         /\ slotCalls[k].rowNum >= 0
         /\ slotCalls[k].rowNum < TABLE_MAX_ROWS
         /\ slotCalls[k].pageNum = SlotPage(slotCalls[k].rowNum)
         /\ slotCalls[k].pageNum < TABLE_MAX_PAGES
         /\ slotCalls[k].byteOffset = SlotOffset(slotCalls[k].rowNum)
         /\ slotCalls[k].byteOffset + ROW_SIZE <= PAGE_SIZE
    /\ AfterInsert =>
         (Len(slotCalls) = 1 /\ slotCalls[1].rowNum = table.NumRows - 1)
    /\ executeResult = "ExecuteTableFull" => slotCalls = <<>>
    /\ AfterSelect =>
         /\ Len(slotCalls) = table.NumRows
         /\ \A k \in 1..Len(slotCalls) : slotCalls[k].rowNum = k - 1
    /\ \A i \in 0..(ROWS_PER_PAGE * SOURCE_TABLE_MAX_PAGES - 1) :
         /\ SlotPage(i) < SOURCE_TABLE_MAX_PAGES
         /\ SlotOffset(i) + ROW_SIZE <= PAGE_SIZE

\* A select on the full table has called rowSlot for every row, the last
\* call for the last slot of the last page.
C17_Witness ==
    /\ AfterSelect
    /\ table.NumRows = TABLE_MAX_ROWS
    /\ Len(slotCalls) = TABLE_MAX_ROWS
    /\ slotCalls[TABLE_MAX_ROWS].rowNum = TABLE_MAX_ROWS - 1
    /\ slotCalls[TABLE_MAX_ROWS].pageNum = TABLE_MAX_PAGES - 1
    /\ slotCalls[TABLE_MAX_ROWS].byteOffset = (ROWS_PER_PAGE - 1) * ROW_SIZE

(***************************************************************************)
(* C18.  Lazy allocation: in every reachable state the allocated pages are *)
(* exactly the pages p with p * ROWS_PER_PAGE < numRows (none when the     *)
(* table is empty), each of PAGE_SIZE bytes; a page is allocated,          *)
(* zero-filled, by the first insert that addresses it, and once allocated  *)
(* it is never freed, replaced or zeroed again: it changes only in the     *)
(* window an insert writes.                                                *)
(***************************************************************************)
C18_LazyAllocation ==
    /\ [](\A p \in DOMAIN table.Pages :
            /\ table.Pages[p] # <<>> <=> p * ROWS_PER_PAGE < table.NumRows
            /\ table.Pages[p] # <<>> => Len(table.Pages[p]) = PAGE_SIZE)
    /\ [][\A p \in DOMAIN table.Pages :
            LET written == InsertStep /\ executeResult' = "ExecuteSuccess"
                                      /\ p = SlotPage(table.NumRows)
                off == SlotOffset(table.NumRows)
            IN  /\ ~written => table'.Pages[p] = table.Pages[p]
                /\ written =>
                     /\ SubSeq(table'.Pages[p], 1, off)
                          = SubSeq(PageBytes(table, p), 1, off)
                     /\ SubSeq(table'.Pages[p], off + ROW_SIZE + 1, PAGE_SIZE)
                          = SubSeq(PageBytes(table, p), off + ROW_SIZE + 1,
                                   PAGE_SIZE)
                /\ (table.Pages[p] = <<>> /\ table'.Pages[p] # <<>>) =>
                     /\ written
                     /\ table.NumRows = p * ROWS_PER_PAGE
                     /\ SubSeq(table'.Pages[p], ROW_SIZE + 1, PAGE_SIZE)
                          = Zeros(PAGE_SIZE - ROW_SIZE)]_vars

\* The first page is full and the insert of row ROWS_PER_PAGE has just
\* allocated the second page: it is zero past its first slot, and the first
\* page still holds its rows.
C18_Witness ==
    /\ AfterInsert
    /\ table.NumRows = ROWS_PER_PAGE + 1
    /\ SubSeq(table.Pages[1], ROW_SIZE + 1, PAGE_SIZE)
         = Zeros(PAGE_SIZE - ROW_SIZE)
    /\ SubSeq(table.Pages[1], 1, ROW_SIZE) # Zeros(ROW_SIZE)
    /\ \A i \in 0..(ROWS_PER_PAGE - 1) :
         deserializeRow(SlotBytes(table, i), ZeroRow) = inserted[i + 1].row

(***************************************************************************)
(* C19.  select is read-only: it always succeeds and leaves numRows and    *)
(* every page byte unchanged and allocates no page (on an empty table it   *)
(* emits no row and no page becomes allocated); two selects with no insert *)
(* in between emit identical output, since the output is the rows of the   *)
(* successful inserts so far and a select run again on the state it left   *)
(* prints the same rows.                                                   *)
(***************************************************************************)
C19_SelectReadOnly ==
    /\ [][(pc = "dispatch" /\ inputBuffer = lineSelect) =>
            /\ executeResult' = "ExecuteSuccess"
            /\ pc' = "read"
            /\ table' = table
            /\ inserted' = inserted
            /\ table.NumRows = 0 =>
                 /\ out' = <<Printed("db > ", <<>>),
                             Printed("Executed.\n", <<>>)>>
                 /\ \A p \in DOMAIN table'.Pages : table'.Pages[p] = <<>>]_vars
    /\ [][inserted' = inserted => table' = table]_vars
    /\ [](AfterSelect =>
            /\ SubSeq(out, 2, Len(out) - 1)
                 = [i \in 1..Len(inserted) |-> printRow(inserted[i].row)]
            /\ executeSelect(statement, table).printed
                 = SubSeq(out, 2, Len(out) - 1)
            /\ executeSelect(statement, table).table = table
            /\ executeSelect(statement, table).result = "ExecuteSuccess")

\* A select has run on the empty table: it printed no row and no page is
\* allocated.
C19_Witness ==
    /\ AfterSelect
    /\ executeResult = "ExecuteSuccess"
    /\ table.NumRows = 0
    /\ \A p \in DOMAIN table.Pages : table.Pages[p] = <<>>
    /\ slotCalls = <<>>
    /\ out = <<Printed("db > ", <<>>), Printed("Executed.\n", <<>>)>>

(***************************************************************************)
(* Vocabulary of the addressing properties.                                *)
(***************************************************************************)
\* The windows rowSlot computes for the row indices 0..(n - 1).
Windows(n) == [i \in 0..(n - 1) |-> SlotCall(rowSlot(table, i))]

\* Two windows share no byte.
Disjoint(a, b) ==
    \/ a.pageNum # b.pageNum
    \/ a.byteOffset + ROW_SIZE <= b.byteOffset
    \/ b.byteOffset + ROW_SIZE <= a.byteOffset

(***************************************************************************)
(* C20.  Slot addressing is injective and non-overlapping: for any two     *)
(* distinct row indices below TABLE_MAX_ROWS the windows rowSlot returns   *)
(* (page i div ROWS_PER_PAGE, bytes from (i mod ROWS_PER_PAGE) * ROW_SIZE  *)
(* for ROW_SIZE bytes) share no byte, so that writing one row never alters *)
(* another row.                                                            *)
(***************************************************************************)
C20_SlotsDisjoint ==
    /\ [](LET w == Windows(TABLE_MAX_ROWS)
          IN  \A i, j \in DOMAIN w :
                /\ w[i].pageNum = SlotPage(i)
                /\ w[i].byteOffset = SlotOffset(i)
                /\ i # j => Disjoint(w[i], w[j]))
    /\ [](LET w == Windows(ROWS_PER_PAGE * SOURCE_TABLE_MAX_PAGES)
          IN  \A i \in DOMAIN w :
                (i + 1) \in DOMAIN w =>
                    \/ w[i + 1].pageNum = w[i].pageNum + 1
                    \/ /\ w[i + 1].pageNum = w[i].pageNum
                       /\ w[i + 1].byteOffset >= w[i].byteOffset + ROW_SIZE)
    /\ [][(InsertStep /\ executeResult' = "ExecuteSuccess") =>
            \A j \in 0..(TABLE_MAX_ROWS - 1) :
                j # table.NumRows =>
                    SubSeq(PageBytes(table', SlotPage(j)),
                           SlotOffset(j) + 1, SlotOffset(j) + ROW_SIZE)
                      = SubSeq(PageBytes(table, SlotPage(j)),
                               SlotOffset(j) + 1, SlotOffset(j) + ROW_SIZE)]_vars

\* The table is full: every slot holds the row inserted into it, and no two
\* slots hold the same bytes.
C20_Witness ==
    /\ AfterInsert
    /\ table.NumRows = TABLE_MAX_ROWS
    /\ \A i \in 0..(TABLE_MAX_ROWS - 1) :
         deserializeRow(SlotBytes(table, i), ZeroRow) = inserted[i + 1].row
    /\ \A i, j \in 0..(TABLE_MAX_ROWS - 1) :
         i # j => SlotBytes(table, i) # SlotBytes(table, j)

====
